---- MODULE Spec2Model ----
(***************************************************************************)
(* Model of the robot start-up pipeline of src/app/main.py: structural     *)
(* validation, per-sensor asset checks with retry/backoff, secret          *)
(* resolution over the configuration tree, and the HTTP handlers that      *)
(* read the process-wide STATE (the variable State: STATE is a reserved     *)
(* word of TLA+).                                                          *)
(*                                                                         *)
(* JSON values are records [t, s, k, c]:                                   *)
(*   t = "str"  : s is the string as the sequence of its ':'-separated     *)
(*                fields ("SECRET:r1:sensor_a" is <<"SECRET","r1",         *)
(*                "sensor_a">>), so that str.split(":", 3) is computed;    *)
(*   t = "num"  : s is <<text of the number>>;                             *)
(*   t = "dict" : k are the keys in insertion order, c the values;         *)
(*   t = "list" : c are the items;                                         *)
(*   t = "none" : Python's None (a missing dict.get result).               *)
(*                                                                         *)
(* The environment (files, secret store documents, environment variables)  *)
(* is a sequence of snapshots `world`; it can change only while the        *)
(* process sleeps, so the snapshot in force is the one indexed by the      *)
(* number of sleeps performed so far (the field clock of a run).           *)
(***************************************************************************)
EXTENDS Naturals, Sequences, FiniteSets, TLC

VARIABLES config, world, State, pc, trace, call, ret, response, served

vars == <<config, world, State, pc, trace, call, ret, response, served>>

----
(* Bounds of the model. *)

MaxSensors == 2

MaxTick == 2

MaxRetry == 3

MaxRequests == 2

(* Program constants: the default retry policies. *)

SensorRetryCount == 3

SensorRetryDelay == 5

SecretRetryCount == 2

SecretRetryDelay == 5

----
(* JSON values. *)

StrV(fields) == [t |-> "str", s |-> fields, k |-> <<>>, c |-> <<>>]

NumV(text) == [t |-> "num", s |-> <<text>>, k |-> <<>>, c |-> <<>>]

DictV(keys, vals) == [t |-> "dict", s |-> <<>>, k |-> keys, c |-> vals]

ListV(items) == [t |-> "list", s |-> <<>>, k |-> <<>>, c |-> items]

NoneV == [t |-> "none", s |-> <<>>, k |-> <<>>, c |-> <<>>]

Has(d, key) == d.t = "dict" /\ \E i \in 1..Len(d.k) : d.k[i] = key

Get(d, key) ==
    IF Has(d, key) THEN d.c[CHOOSE i \in 1..Len(d.k) : d.k[i] = key] ELSE NoneV

(* Python truthiness of a value: None, "", {} and [] are falsy. *)
Truthy(v) ==
    CASE v.t = "none" -> FALSE
      [] v.t = "str"  -> v.s # <<"">>
      [] v.t = "num"  -> v.s # <<"0">>
      [] OTHER        -> Len(v.c) > 0

RECURSIVE Join(_)
Join(fields) ==
    IF Len(fields) = 0 THEN ""
    ELSE IF Len(fields) = 1 THEN fields[1]
    ELSE fields[1] \o ":" \o Join(Tail(fields))

Min(a, b) == IF a < b THEN a ELSE b

RECURSIVE Pow2(_)
Pow2(n) == IF n = 0 THEN 1 ELSE 2 * Pow2(n - 1)

----
(* Exceptions, events and runs. *)

NoExc == [kind |-> "none", r |-> "", s |-> "", k |-> "", n |-> 0]

Exc(kind, r, s, k, n) == [kind |-> kind, r |-> r, s |-> s, k |-> k, n |-> n]

(* One observable step of a run: an asset check, a sleep, a read_secret *)
(* call, a read of the secret store, a read of the environment, or the  *)
(* completion of resolve_secrets_in_config.                             *)
Ev(e, a, b, c, ok, d) == [e |-> e, a |-> a, b |-> b, c |-> c, ok |-> ok, d |-> d]

(* A run threads the effects of the code executed so far: the number of *)
(* sleeps (clock), the events, the increments of                        *)
(* STATE["asset_validation_retries"], the exception raised (if any) and *)
(* the value returned.                                                  *)
NewRun == [clock |-> 0, trace |-> <<>>, retries |-> 0, exc |-> NoExc, val |-> NoneV]

Log(run, ev) == [run EXCEPT !.trace = Append(@, ev)]

Raise(run, exc) == [run EXCEPT !.exc = exc]

Return(run, v) == [run EXCEPT !.val = v]

Raised(run) == run.exc.kind # "none"

(* time.sleep(d): the event, and the environment moves on. *)
Sleep(run, who, d) ==
    [Log(run, Ev("sleep", who, "", "", TRUE, d)) EXCEPT !.clock = @ + 1]

(* The snapshot of the environment in force after `clock` sleeps. *)
At(clock) == world[Min(clock + 1, Len(world))]

----
(* AssetChecker. *)

PathOf(v) == IF v.t = "str" THEN Join(v.s) ELSE "<not a string>"

(* os.path.exists / isfile / access; any exception gives False. *)
validate_asset_file(file_path, clock) ==
    file_path.t = "str" /\ Join(file_path.s) \in At(clock).files

(* The retry loop of validate_sensor_config, from iteration `attempt`. *)
RECURSIVE AssetLoop(_, _, _, _, _)
(* Mutation: the counter is incremented on every failed check, the last *)
(* one included.                                                        *)
AssetLoopCountsEveryFailure(path, attempt, retry_count, retry_delay, run) ==
    IF attempt >= retry_count THEN run
    ELSE LET ok == validate_asset_file(path, run.clock)
             run1 == Log(run, Ev("check", PathOf(path), "", "", ok, 0))
         IN  IF ok THEN run1
             ELSE IF attempt < retry_count - 1
                  THEN AssetLoop(path, attempt + 1, retry_count, retry_delay,
                           Sleep([run1 EXCEPT !.retries = @ + 1], "asset",
                                 retry_delay * Pow2(attempt)))
                  ELSE Raise([run1 EXCEPT !.retries = @ + 1],
                             Exc("asset", "", "", PathOf(path), 0))

AssetLoop(path, attempt, retry_count, retry_delay, run) ==
    IF attempt >= retry_count THEN run
    ELSE LET ok == validate_asset_file(path, run.clock)
             run1 == Log(run, Ev("check", PathOf(path), "", "", ok, 0))
         IN  IF ok THEN run1
             ELSE IF attempt < retry_count - 1
                  THEN AssetLoop(path, attempt + 1, retry_count, retry_delay,
                           Sleep([run1 EXCEPT !.retries = @ + 1], "asset",
                                 retry_delay * Pow2(attempt)))
                  ELSE Raise(run1, Exc("asset", "", "", PathOf(path), 0))

TypeIs(sensor, name) == Get(sensor, "type") = StrV(<<name>>)

(* Mutation: the retry loops run once more than retry_count. *)
ValidateSensorConfigExtraAttempt(sensor, retry_count, retry_delay, run) ==
    IF TypeIs(sensor, "sensor_a") /\ Has(sensor, "bit_mask")
    THEN AssetLoop(Get(sensor, "bit_mask"), 0, retry_count + 1, retry_delay, run)
    ELSE IF TypeIs(sensor, "sensor_c") /\ Has(sensor, "field_map")
    THEN AssetLoop(Get(sensor, "field_map"), 0, retry_count + 1, retry_delay, run)
    ELSE IF TypeIs(sensor, "sensor_b") /\ Has(sensor, "speed_km_per_h")
    THEN run
    ELSE IF \E name \in {"sensor_a", "sensor_b", "sensor_c"} : TypeIs(sensor, name)
    THEN Raise(run, Exc("missing_field", "", PathOf(Get(sensor, "type")), "", 0))
    ELSE run

validate_sensor_config(sensor, retry_count, retry_delay, run) ==
    IF TypeIs(sensor, "sensor_a")
    THEN IF ~Has(sensor, "bit_mask")
         THEN Raise(run, Exc("missing_field", "", "sensor_a", "bit_mask", 0))
         ELSE AssetLoop(Get(sensor, "bit_mask"), 0, retry_count, retry_delay, run)
    ELSE IF TypeIs(sensor, "sensor_b")
    THEN IF ~Has(sensor, "speed_km_per_h")
         THEN Raise(run, Exc("missing_field", "", "sensor_b", "speed_km_per_h", 0))
         ELSE run
    ELSE IF TypeIs(sensor, "sensor_c")
    THEN IF ~Has(sensor, "field_map")
         THEN Raise(run, Exc("missing_field", "", "sensor_c", "field_map", 0))
         ELSE AssetLoop(Get(sensor, "field_map"), 0, retry_count, retry_delay, run)
    ELSE run

----
(* SecretResolver. *)

(* str.upper() on the identifiers the model uses. *)
Upper(x) ==
    CASE x = "r1"                -> "R1"
      [] x = "sensor_a"          -> "SENSOR_A"
      [] x = "sensor_b"          -> "SENSOR_B"
      [] x = "sensor_c"          -> "SENSOR_C"
      [] x = "wgs84_coordinates" -> "WGS84_COORDINATES"
      [] x = "path"              -> "PATH"
      [] x = "path:v2"           -> "PATH:V2"
      [] OTHER                   -> x

(* Mutation: the name is built without upper-casing its parts. *)
EnvKeyAsWritten(robot_id, sensor_name, secret_key) ==
    "SECRET_" \o robot_id \o "_" \o sensor_name \o "_" \o secret_key

EnvKey(robot_id, sensor_name, secret_key) ==
    "SECRET_" \o Upper(robot_id) \o "_" \o Upper(sensor_name) \o "_" \o Upper(secret_key)

(* os.getenv: the text of the variable as its ':'-separated fields, or *)
(* <<>> (None) when it is not set.                                     *)
Getenv(snap, name) == IF name \in DOMAIN snap.env THEN snap.env[name] ELSE <<>>

(* The one JSON text the environment of the model can hold:            *)
(* {"lat": 1.0, "lon": 2.0}                                            *)
JsonCoordsText == <<"{\"lat\"", " 1.0, \"lon\"", " 2.0}">>

Coords == DictV(<<"lat", "lon">>, <<NumV("1.0"), NumV("2.0")>>)

(* json.loads(env_value), falling back to the raw string on a *)
(* JSONDecodeError.                                           *)
JsonLoadsOrRaw(text) == IF text = JsonCoordsText THEN Coords ELSE StrV(text)

(* One iteration of the retry loop of read_secret, then the rest of it. *)
RECURSIVE SecretLoop(_, _, _, _, _, _, _)
SecretLoop(robot_id, sensor_name, secret_key, attempt, retry_count, retry_delay, run) ==
    IF attempt >= retry_count
    THEN Raise(run, Exc("secret", robot_id, sensor_name, secret_key, retry_count))
    ELSE
    LET snap == At(run.clock)
        exists == robot_id \in DOMAIN snap.docs
        doc == snap.docs[robot_id]
        found == /\ doc.st = "ok"
                 /\ Has(doc.data, sensor_name)
                 /\ Has(Get(doc.data, sensor_name), secret_key)
        env_key == EnvKey(robot_id, sensor_name, secret_key)
        env_value == Getenv(snap, env_key)
        env_set == env_value # <<>> /\ env_value # <<"">>
        run1 == IF exists
                THEN Log(run, Ev("store", robot_id, sensor_name, secret_key, found, attempt))
                ELSE Log(run, Ev("env", env_key, "", "", env_set, attempt))
        backoff == IF attempt < retry_count - 1
                   THEN Sleep(run1, "secret", retry_delay * Pow2(attempt))
                   ELSE run1
    IN  IF exists /\ found
        THEN Return(run1, Get(Get(doc.data, sensor_name), secret_key))
        ELSE IF ~exists /\ env_set
        THEN Return(run1, JsonLoadsOrRaw(env_value))
        ELSE SecretLoop(robot_id, sensor_name, secret_key, attempt + 1,
                        retry_count, retry_delay, backoff)

(* Mutation: the exponent is off by one, retry_delay * 2 ** (attempt + 1). *)
ReadSecretDoubledDelay(robot_id, sensor_name, secret_key, retry_count, retry_delay, run) ==
    SecretLoop(robot_id, sensor_name, secret_key, 0, retry_count, 2 * retry_delay,
               Log(run, Ev("call", robot_id, sensor_name, secret_key, TRUE, 0)))

read_secret(robot_id, sensor_name, secret_key, retry_count, retry_delay, run) ==
    SecretLoop(robot_id, sensor_name, secret_key, 0, retry_count, retry_delay,
               Log(run, Ev("call", robot_id, sensor_name, secret_key, TRUE, 0)))

----
(* ConfigTreeWalker. *)

(* Mutation: startswith("SECRET"), without the colon. *)
StartsWithSecretNoColon(v) == v.t = "str" /\ Len(v.s) >= 1 /\ v.s[1] = "SECRET"

(* value.startswith("SECRET:") *)
StartsWithSecret(v) == v.t = "str" /\ Len(v.s) >= 2 /\ v.s[1] = "SECRET"

(* value.split(":", maxsplit): at most maxsplit + 1 parts, the last one *)
(* keeping its colons.                                                  *)
Split(fields, maxsplit) ==
    IF Len(fields) <= maxsplit + 1 THEN fields
    ELSE SubSeq(fields, 1, maxsplit) \o <<Join(SubSeq(fields, maxsplit + 1, Len(fields)))>>

(* Mutation: a reference of two parts is accepted, the sensor name *)
(* taken from the context.                                        *)
ResolveValueLenient(value, context_sensor_name, run) ==
    IF StartsWithSecret(value)
    THEN LET parts == Split(value.s, 3)
         IN  read_secret(parts[2],
                         IF Len(parts) > 2 THEN parts[3] ELSE context_sensor_name,
                         IF Len(parts) > 3 THEN parts[4] ELSE "wgs84_coordinates",
                         SecretRetryCount, SecretRetryDelay, run)
    ELSE Return(run, value)

(* Mutation: the sensor name given to read_secret is the context of the *)
(* walk instead of the third part of the reference.                    *)
ResolveValueFromContext(value, context_sensor_name, run) ==
    IF StartsWithSecret(value)
    THEN LET parts == Split(value.s, 3)
         IN  IF Len(parts) >= 3
             THEN read_secret(parts[2], context_sensor_name,
                              IF Len(parts) > 3 THEN parts[4] ELSE "wgs84_coordinates",
                              SecretRetryCount, SecretRetryDelay, run)
             ELSE Raise(run, Exc("malformed", "", "", Join(value.s), 0))
    ELSE Return(run, value)

resolve_value(value, context_sensor_name, run) ==
    IF StartsWithSecret(value)
    THEN LET parts == Split(value.s, 3)
         IN  IF Len(parts) >= 3
             THEN read_secret(parts[2], parts[3],
                              IF Len(parts) > 3 THEN parts[4] ELSE "wgs84_coordinates",
                              SecretRetryCount, SecretRetryDelay, run)
             ELSE Raise(run, Exc("malformed", "", "", Join(value.s), 0))
    ELSE Return(run, value)

(* parse_dict, and its comprehension over the items of a dict or list *)
(* from position i on, acc being the items built so far.              *)
RECURSIVE parse_dict(_, _, _), ParseItems(_, _, _, _, _)
parse_dict(obj, sensor_name, run) ==
    IF obj.t \in {"dict", "list"}
    THEN ParseItems(obj, 1, <<>>, sensor_name, run)
    ELSE resolve_value(obj, sensor_name, run)

(* parse_dict applied to what resolve_value returned (a dict value). *)
ParseResolved(sensor_name, r) ==
    IF Raised(r) THEN r ELSE parse_dict(r.val, sensor_name, r)

ParseAppend(obj, i, acc, sensor_name, r) ==
    IF Raised(r) THEN r
    ELSE ParseItems(obj, i + 1, Append(acc, r.val), sensor_name, r)

ParseItems(obj, i, acc, sensor_name, run) ==
    IF i > Len(obj.c) THEN Return(run, [obj EXCEPT !.c = acc])
    ELSE ParseAppend(obj, i, acc, sensor_name,
             IF obj.t = "dict"
             THEN ParseResolved(sensor_name, resolve_value(obj.c[i], sensor_name, run))
             ELSE parse_dict(obj.c[i], sensor_name, run))

(* The loop over config["sensors"] of resolve_secrets_in_config. *)
RECURSIVE ResolveSensors(_, _, _, _)
ResolveAppend(sensors, i, acc, r) ==
    IF Raised(r) THEN r ELSE ResolveSensors(sensors, i + 1, Append(acc, r.val), r)

ResolveSensors(sensors, i, acc, run) ==
    IF i > Len(sensors) THEN Return(run, ListV(acc))
    ELSE ResolveAppend(sensors, i, acc,
             parse_dict(sensors[i],
                        IF Has(sensors[i], "type")
                        THEN PathOf(Get(sensors[i], "type")) ELSE "unknown",
                        run))

Resolved(r) == IF Raised(r) THEN r ELSE Log(r, Ev("resolved", "", "", "", TRUE, 0))

(* Returns the run whose val is the list of the resolved sensors *)
(* (config["sensors"] of the returned config).                    *)
resolve_secrets_in_config(cfg, run) ==
    IF "sensors" \in cfg.keys
    THEN Resolved(ResolveSensors(cfg.sensors, 1, <<>>, run))
    ELSE Resolved(Return(run, ListV(<<>>)))

----
(* SensorValidator over the list, and the pipeline. *)

valid_sensor_types == {StrV(<<"sensor_a">>), StrV(<<"sensor_b">>), StrV(<<"sensor_c">>)}

(* The loop over the sensors of validate_robot_config. *)
RECURSIVE ValidateSensors(_, _, _)
(* Mutation: the loop goes on to the next sensor after a failure. *)
ValidateNextNoShortCircuit(sensors, i, r) == ValidateSensors(sensors, i + 1, r)

ValidateNext(sensors, i, r) ==
    IF Raised(r) THEN r ELSE ValidateSensors(sensors, i + 1, r)

ValidateSensors(sensors, i, run) ==
    IF i > Len(sensors) THEN run
    ELSE LET sensor_type == Get(sensors[i], "type")
             ok == Truthy(sensor_type) /\ sensor_type \in valid_sensor_types
             run1 == Log(run, Ev("typecheck", "", "", "", ok, i))
         IN  IF ~Truthy(sensor_type)
             THEN Raise(run1, Exc("missing_type", "", "", "", i))
             ELSE IF sensor_type \notin valid_sensor_types
             THEN Raise(run1, Exc("invalid_type", "", PathOf(sensor_type), "", i))
             ELSE ValidateNext(sensors, i,
                      validate_sensor_config(sensors[i], SensorRetryCount,
                                             SensorRetryDelay, run1))

validate_robot_config(cfg, run) ==
    IF "robot_id" \notin cfg.keys
    THEN Raise(run, Exc("robot_id_required", "", "", "", 0))
    ELSE IF "sensors" \notin cfg.keys \/ cfg.sensors = <<>>
    THEN Raise(run, Exc("no_sensors", "", "", "", 0))
    ELSE ValidateSensors(cfg.sensors, 1, run)

(* The body of the try block of startup_event up to the assignments to *)
(* STATE: validation of the raw configuration, then secret resolution. *)
(* A statement following a call: skipped when the call raised. *)
ThenResolve(cfg, validated) ==
    IF Raised(validated) THEN validated ELSE resolve_secrets_in_config(cfg, validated)

StartupRun(cfg) == ThenResolve(cfg, validate_robot_config(cfg, NewRun))

----
(* The process: STATE, the start-up handler and the HTTP handlers. *)

InitialState ==
    [robot_id |-> NoneV, sensors |-> <<>>, initialized |-> FALSE,
     startup_time |-> NoneV, config_version |-> NoneV, health_checks |-> 0,
     asset_validation_retries |-> 0, errors |-> <<>>]

NoCall == [fn |-> "none"]

NoResponse == [endpoint |-> "none", status |-> 0]

(* format_sensor_info: the descriptor of a sensor, as the sequence of *)
(* the values it prints ("N/A" for an absent one).                    *)
Shown(sensor, key) == IF Has(sensor, key) THEN Get(sensor, key) ELSE StrV(<<"N/A">>)

format_sensor_info(sensor) ==
    IF TypeIs(sensor, "sensor_a")
    THEN <<Get(sensor, "type"), Shown(sensor, "range"), Shown(sensor, "bit_mask")>>
    ELSE IF TypeIs(sensor, "sensor_b")
    THEN <<Get(sensor, "type"), Shown(sensor, "speed_km_per_h")>>
    ELSE IF TypeIs(sensor, "sensor_c")
    THEN <<Get(sensor, "type"), Shown(sensor, "field_map"), Shown(sensor, "battery_pct")>>
    ELSE <<Get(sensor, "type"), StrV(<<"unknown configuration">>)>>

(* Mutation: robot_id and sensors are stored before the outcome of the *)
(* pipeline is known.                                                  *)
StartupStateEager(cfg, run) ==
    LET base == [State EXCEPT !.startup_time = NumV("t0"),
                              !.asset_validation_retries = @ + run.retries,
                              !.robot_id = cfg.robot_id,
                              !.sensors = cfg.sensors]
    IN  IF Raised(run)
        THEN [base EXCEPT !.errors = Append(@, run.exc)]
        ELSE [base EXCEPT
                  !.config_version = IF "version" \in cfg.keys THEN cfg.version ELSE @,
                  !.sensors = run.val.c,
                  !.initialized = TRUE]

(* The end of startup_event, given the run of its try block: the *)
(* assignments to STATE, or the except clause.                   *)
StartupState(cfg, run) ==
    LET base == [State EXCEPT !.startup_time = NumV("t0"),
                              !.asset_validation_retries = @ + run.retries]
    IN  IF Raised(run)
        THEN [base EXCEPT !.errors = Append(@, run.exc)]
        ELSE [base EXCEPT
                  !.config_version = IF "version" \in cfg.keys THEN cfg.version ELSE @,
                  !.robot_id = cfg.robot_id,
                  !.sensors = run.val.c,
                  !.initialized = TRUE]

Finish(run) ==
    /\ trace' = run.trace
    /\ ret' = run
    /\ State' = StartupState(config, run)
    /\ pc' = IF Raised(run) THEN "failed" ELSE "running"

(* startup_event has no await: it runs to its end, sleeps included, *)
(* before any request is served.                                    *)
startup_event ==
    /\ pc = "boot"
    /\ Finish(StartupRun(config))
    /\ UNCHANGED <<config, world, call, response, served>>

(* A request can arrive once start-up has run, whatever its outcome. *)
Serving == pc \in {"running", "failed"} /\ served < MaxRequests

Respond(r) ==
    /\ response' = r
    /\ served' = served + 1
    /\ UNCHANGED <<config, world, pc, trace, call, ret>>

NotInitialized(endpoint) == [endpoint |-> endpoint, status |-> 503]

Uptime == State.startup_time # NoneV

SensorsCount == IF State.sensors # <<>> THEN Len(State.sensors) ELSE 0

health_check ==
    /\ Serving
    /\ State' = [State EXCEPT !.health_checks = @ + 1]
    /\ Respond(IF ~State.initialized THEN NotInitialized("/health")
               ELSE [endpoint |-> "/health", status |-> 200,
                     robot_id |-> State.robot_id,
                     sensors_count |-> Len(State.sensors),
                     uptime |-> Uptime,
                     config_version |-> State.config_version])

status ==
    /\ Serving
    /\ UNCHANGED State
    /\ Respond(IF ~State.initialized THEN NotInitialized("/status")
               ELSE [endpoint |-> "/status", status |-> 200,
                     robot_id |-> State.robot_id,
                     sensors |-> State.sensors,
                     initialized |-> State.initialized,
                     uptime |-> Uptime,
                     config_version |-> State.config_version])

metrics ==
    /\ Serving
    /\ UNCHANGED State
    /\ Respond([endpoint |-> "/metrics", status |-> 200,
                health_checks |-> State.health_checks,
                asset_validation_retries |-> State.asset_validation_retries,
                uptime |-> Uptime,
                error_count |-> Len(State.errors),
                initialized |-> State.initialized,
                sensors_count |-> SensorsCount,
                robot_id |-> State.robot_id])

prometheus_metrics ==
    /\ Serving
    /\ UNCHANGED State
    /\ Respond([endpoint |-> "/prometheus", status |-> 200,
                robot_id |-> State.robot_id,
                robot_uptime |-> Uptime,
                robot_sensors |-> SensorsCount,
                robot_initialized |-> IF State.initialized THEN 1 ELSE 0,
                robot_health_checks |-> State.health_checks,
                robot_errors |-> Len(State.errors),
                robot_retries |-> State.asset_validation_retries])

initialization_info ==
    /\ Serving
    /\ UNCHANGED State
    /\ Respond(IF ~State.initialized THEN NotInitialized("/init")
               ELSE [endpoint |-> "/init", status |-> 200,
                     robot_id |-> State.robot_id,
                     config_version |-> State.config_version,
                     initialized_at |-> State.startup_time,
                     sensors_configured |-> Len(State.sensors),
                     sensor_summary |->
                         [i \in 1..Len(State.sensors) |->
                             format_sensor_info(State.sensors[i])],
                     full_resolved_config |->
                         [robot_id |-> State.robot_id,
                          version |-> State.config_version,
                          sensors |-> State.sensors]])

root ==
    /\ Serving
    /\ UNCHANGED State
    /\ Respond([endpoint |-> "/", status |-> 200,
                robot_id |-> State.robot_id,
                running |-> State.initialized,
                config_version |-> State.config_version])

(* Mutation: a runtime error makes the handler run the start-up *)
(* pipeline again.                                              *)
GlobalExceptionHandlerRevalidates ==
    /\ Serving
    /\ State' = [StartupState(config, StartupRun(config)) EXCEPT
                     !.errors = Append(@, Exc("runtime", "", "", "", 0))]
    /\ trace' = trace \o StartupRun(config).trace
    /\ response' = [endpoint |-> "error", status |-> 500]
    /\ served' = served + 1
    /\ UNCHANGED <<config, world, pc, call, ret>>

(* An exception escaping a request handler. *)
global_exception_handler ==
    /\ Serving
    /\ State' = [State EXCEPT !.errors = Append(@, Exc("runtime", "", "", "", 0))]
    /\ Respond([endpoint |-> "error", status |-> 500])

----
(* Inputs: sensors, configurations and environments. *)

APath == StrV(<<"/assets/a.bin">>)

CPath == StrV(<<"/assets/c.map">>)

CoordsRef == StrV(<<"SECRET", "r1", "sensor_a">>)

PathRef == StrV(<<"SECRET", "r1", "sensor_a", "path">>)

Malformed == StrV(<<"SECRET", "onlytwo">>)

SensorA ==
    DictV(<<"type", "range", "wgs84_coordinates", "bit_mask">>,
          <<StrV(<<"sensor_a">>), NumV("10"), CoordsRef, APath>>)

(* A sensor_a whose asset path is held by the secret store. *)
SensorARef ==
    DictV(<<"type", "range", "bit_mask">>, <<StrV(<<"sensor_a">>), NumV("10"), PathRef>>)

SensorANoMask == DictV(<<"type", "range">>, <<StrV(<<"sensor_a">>), NumV("10")>>)

SensorB ==
    DictV(<<"type", "speed_km_per_h">>, <<StrV(<<"sensor_b">>), NumV("3")>>)

SensorBMalformed ==
    DictV(<<"type", "wgs84_coordinates", "speed_km_per_h">>,
          <<StrV(<<"sensor_b">>), Malformed, NumV("3")>>)

SensorC ==
    DictV(<<"type", "field_map", "battery_pct">>,
          <<StrV(<<"sensor_c">>), CPath, NumV("50")>>)

SensorZ == DictV(<<"type">>, <<StrV(<<"sensor_z">>)>>)

SensorNoType == DictV(<<"range">>, <<NumV("10")>>)

PipelineSensors ==
    {SensorA, SensorARef, SensorANoMask, SensorB, SensorBMalformed, SensorC,
     SensorZ, SensorNoType}

SeqsUpTo(S, n) == UNION {[1..m -> S] : m \in 0..n}

Cfg(keys, robot_id, sensors) ==
    [keys |-> keys, robot_id |-> robot_id, version |-> StrV(<<"2.1.0">>),
     sensors |-> sensors]

AllKeys == {"robot_id", "sensors", "version"}

(* Every sensor list up to MaxSensors with all the top-level keys, and *)
(* the single-sensor configurations with one top-level key missing or  *)
(* an empty robot_id.                                                  *)
PipelineConfigs ==
    {Cfg(AllKeys, StrV(<<"r1">>), ss) : ss \in SeqsUpTo(PipelineSensors, MaxSensors)}
    \cup {Cfg(AllKeys \ {key}, StrV(<<"r1">>), <<SensorA>>) : key \in AllKeys}
    \cup {Cfg(AllKeys, StrV(<<"">>), <<SensorB>>)}

NoEnv == [x \in {} |-> <<>>]

(* /run/secrets/r1 holding the coordinates and the asset path of sensor_a. *)
Doc(coords, path, path_v2) ==
    [st |-> "ok",
     data |-> DictV(<<"sensor_a">>,
                    <<DictV(<<"wgs84_coordinates", "path", "path:v2">>,
                            <<coords, path, path_v2>>)>>)]

DocGood == Doc(Coords, APath, CPath)

EnvGood ==
    (EnvKey("r1", "sensor_a", "wgs84_coordinates") :> JsonCoordsText)
    @@ (EnvKey("r1", "sensor_a", "path") :> APath.s)

Snap(files, docs, env) == [files |-> files, docs |-> docs, env |-> env]

AllFiles == {"/assets/a.bin", "/assets/c.map"}

PipelineSnaps ==
    {Snap(AllFiles, "r1" :> DocGood, NoEnv),
     Snap({}, "r1" :> DocGood, NoEnv),
     Snap(AllFiles, NoEnv, NoEnv),
     Snap(AllFiles, NoEnv, EnvGood)}

(* The environment at start-up and the one after the first sleep. *)
PipelineWorlds == {<<a, b>> : a \in PipelineSnaps, b \in PipelineSnaps}

Init ==
    /\ config \in PipelineConfigs
    /\ world \in PipelineWorlds
    /\ State = InitialState
    /\ pc = "boot"
    /\ trace = <<>>
    /\ call = NoCall
    /\ ret = NewRun
    /\ response = NoResponse
    /\ served = 0

Next ==
    \/ startup_event
    \/ health_check
    \/ status
    \/ metrics
    \/ prometheus_metrics
    \/ initialization_info
    \/ root
    \/ global_exception_handler

Spec == Init /\ [][Next]_vars

----
(* validate_sensor_config called on its own, with any retry policy. *)

Delays == {1, 5}

(* The files present at each tick: all of them or none. *)
FileWorlds == [1..MaxTick + 1 -> {Snap(AllFiles, NoEnv, NoEnv), Snap({}, NoEnv, NoEnv)}]

SensorInputs ==
    {SensorA, SensorARef, SensorANoMask, SensorB, SensorC, SensorZ, SensorNoType}

InitSensor ==
    /\ call \in {[fn |-> "validate_sensor_config", sensor |-> s,
                  retry_count |-> n, retry_delay |-> d] :
                    s \in SensorInputs, n \in 0..MaxRetry, d \in Delays}
    /\ world \in FileWorlds
    /\ config = Cfg(AllKeys, StrV(<<"r1">>), <<call.sensor>>)
    /\ State = InitialState
    /\ pc = "call"
    /\ trace = <<>>
    /\ ret = NewRun
    /\ response = NoResponse
    /\ served = 0

Returned(run) ==
    /\ ret' = run
    /\ trace' = run.trace
    /\ State' = [State EXCEPT !.asset_validation_retries = @ + run.retries]
    /\ pc' = "returned"

CallValidateSensorConfig ==
    /\ pc = "call"
    /\ call.fn = "validate_sensor_config"
    /\ Returned(validate_sensor_config(call.sensor, call.retry_count,
                                       call.retry_delay, NewRun))
    /\ UNCHANGED <<config, world, call, response, served>>

SpecSensor == InitSensor /\ [][CallValidateSensorConfig]_vars

----
(* read_secret called on its own, with any retry policy. *)

DocLacksKey ==
    [st |-> "ok", data |-> DictV(<<"sensor_a">>, <<DictV(<<"other">>, <<NumV("1")>>)>>)]

DocLacksSensor ==
    [st |-> "ok", data |-> DictV(<<"sensor_b">>, <<DictV(<<"path">>, <<CPath>>)>>)]

DocCorrupt == [st |-> "corrupt", data |-> NoneV]

EnvEmpty == EnvKey("r1", "sensor_a", "path") :> <<"">>

SecretSnaps ==
    {Snap({}, "r1" :> DocGood, EnvGood),
     Snap({}, "r1" :> DocLacksKey, EnvGood),
     Snap({}, "r1" :> DocLacksSensor, NoEnv),
     Snap({}, "r1" :> DocCorrupt, NoEnv),
     Snap({}, NoEnv, NoEnv),
     Snap({}, NoEnv, EnvEmpty),
     Snap({}, NoEnv, EnvGood)}

SecretWorlds == [1..MaxTick + 1 -> SecretSnaps]

InitSecret ==
    /\ call \in {[fn |-> "read_secret", robot_id |-> "r1", sensor_name |-> "sensor_a",
                  secret_key |-> key, retry_count |-> n, retry_delay |-> d] :
                    key \in {"wgs84_coordinates", "path"}, n \in 0..MaxRetry,
                    d \in Delays}
    /\ world \in SecretWorlds
    /\ config = Cfg(AllKeys, StrV(<<"r1">>), <<>>)
    /\ State = InitialState
    /\ pc = "call"
    /\ trace = <<>>
    /\ ret = NewRun
    /\ response = NoResponse
    /\ served = 0

CallReadSecret ==
    /\ pc = "call"
    /\ call.fn = "read_secret"
    /\ Returned(read_secret(call.robot_id, call.sensor_name, call.secret_key,
                            call.retry_count, call.retry_delay, NewRun))
    /\ UNCHANGED <<config, world, call, response, served>>

SpecSecret == InitSecret /\ [][CallReadSecret]_vars

----
(* resolve_secrets_in_config called on its own, then on its own result. *)

PathV2Ref == StrV(<<"SECRET", "r1", "sensor_a", "path", "v2">>)

Urn == StrV(<<"urn", "x", "y">>)

(* References as dict values, in a nested dict and as list items. *)
SensorNested ==
    DictV(<<"type", "speed_km_per_h", "extra">>,
          <<StrV(<<"sensor_b">>), NumV("3"),
            DictV(<<"pos", "tags">>, <<CoordsRef, ListV(<<Urn, PathRef>>)>>)>>)

SensorListRef ==
    DictV(<<"type", "speed_km_per_h", "wgs84_coordinates">>,
          <<StrV(<<"sensor_b">>), NumV("3"), ListV(<<CoordsRef>>)>>)

SensorV2 ==
    DictV(<<"type", "field_map", "battery_pct">>,
          <<StrV(<<"sensor_c">>), PathV2Ref, NumV("50")>>)

(* No reference: strings with colons, and "SECRET" without a colon. *)
SensorPlain ==
    DictV(<<"type", "field_map", "battery_pct", "meta">>,
          <<StrV(<<"sensor_c">>), CPath, NumV("50"),
            DictV(<<"notes">>, <<ListV(<<Urn, StrV(<<"SECRET">>)>>)>>)>>)

ResolveSensorInputs ==
    {SensorA, SensorARef, SensorNested, SensorListRef, SensorV2, SensorPlain,
     SensorB, SensorBMalformed}

ResolveConfigs ==
    {Cfg(AllKeys, StrV(<<"r1">>), ss) : ss \in SeqsUpTo(ResolveSensorInputs, MaxSensors)}
    \cup {Cfg(AllKeys \ {"sensors"}, StrV(<<"r1">>), <<>>)}

(* A store whose values are, or hold, SECRET: strings themselves. *)
DocNested ==
    Doc(DictV(<<"lat", "via">>, <<NumV("1.0"), PathRef>>), PathV2Ref, CPath)

ResolveSnaps ==
    {Snap(AllFiles, "r1" :> DocGood, EnvGood),
     Snap(AllFiles, "r1" :> DocNested, NoEnv),
     Snap(AllFiles, NoEnv, EnvGood),
     Snap(AllFiles, NoEnv, NoEnv)}

ResolveWorlds == {<<a, b>> : a \in ResolveSnaps, b \in ResolveSnaps}

InitResolve ==
    /\ config \in ResolveConfigs
    /\ world \in ResolveWorlds
    /\ call = [fn |-> "resolve_secrets_in_config", arg |-> config, first |-> NewRun]
    /\ State = InitialState
    /\ pc = "call"
    /\ trace = <<>>
    /\ ret = NewRun
    /\ response = NoResponse
    /\ served = 0

(* config["sensors"] = resolved_sensors: the argument is updated in place, *)
(* unless the walk raised before the assignment.                           *)
Assigned(cfg, run) ==
    IF Raised(run) \/ "sensors" \notin cfg.keys THEN cfg
    ELSE [cfg EXCEPT !.sensors = run.val.c]

ResolveReturned(run) ==
    /\ ret' = run
    /\ trace' = run.trace
    /\ config' = Assigned(config, run)

CallResolve ==
    /\ pc = "call"
    /\ call.fn = "resolve_secrets_in_config"
    /\ ResolveReturned(resolve_secrets_in_config(config, NewRun))
    /\ pc' = "returned"
    /\ UNCHANGED <<world, State, call, response, served>>

(* The returned configuration resolved again, later in the same process. *)
CallResolveAgain ==
    /\ pc = "returned"
    /\ call.fn = "resolve_secrets_in_config"
    /\ ~Raised(ret)
    /\ ResolveReturned(resolve_secrets_in_config(config,
                           [NewRun EXCEPT !.clock = ret.clock]))
    /\ call' = [call EXCEPT !.first = ret]
    /\ pc' = "returned again"
    /\ UNCHANGED <<world, State, response, served>>

NextResolve == CallResolve \/ CallResolveAgain

SpecResolve == InitResolve /\ [][NextResolve]_vars

----
(* Vocabulary of the properties. *)

IsCheck(ev) == ev.e = "check"

IsSleep(ev) == ev.e = "sleep"

IsCall(ev) == ev.e = "call"

IsAttempt(ev) == ev.e \in {"store", "env"}

Checks(tr) == SelectSeq(tr, IsCheck)

Sleeps(tr) == SelectSeq(tr, IsSleep)

Calls(tr) == SelectSeq(tr, IsCall)

Attempts(tr) == SelectSeq(tr, IsAttempt)

Durations(tr) == [i \in 1..Len(Sleeps(tr)) |-> Sleeps(tr)[i].d]

(* The string leaves of a tree. *)
RECURSIVE Leaves(_)
Leaves(v) ==
    IF v.t \in {"dict", "list"} THEN UNION {Leaves(v.c[i]) : i \in 1..Len(v.c)}
    ELSE IF v.t = "str" THEN {v} ELSE {}

ConfigLeaves(cfg) == UNION {Leaves(cfg.sensors[i]) : i \in 1..Len(cfg.sensors)}

(* A string that starts with "SECRET:". *)
IsReference(v) == v.t = "str" /\ Len(v.s) >= 2 /\ v.s[1] = "SECRET"

References(cfg) == {v \in ConfigLeaves(cfg) : IsReference(v)}

WellFormed(ref) == Len(ref.s) >= 3

RecognizedTypes == {"sensor_a", "sensor_b", "sensor_c"}

TypeOf(sensor) == PathOf(Get(sensor, "type"))

Recognized(sensor) == Has(sensor, "type") /\ TypeOf(sensor) \in RecognizedTypes

AssetField(sensor) ==
    CASE TypeOf(sensor) = "sensor_a" -> "bit_mask"
      [] TypeOf(sensor) = "sensor_c" -> "field_map"
      [] OTHER -> "speed_km_per_h"

HasAsset(sensor) ==
    /\ Recognized(sensor)
    /\ TypeOf(sensor) \in {"sensor_a", "sensor_c"}
    /\ Has(sensor, AssetField(sensor))

StructuralViolation(cfg) ==
    \/ "robot_id" \notin cfg.keys
    \/ "sensors" \notin cfg.keys
    \/ cfg.sensors = <<>>
    \/ \E i \in 1..Len(cfg.sensors) : ~Recognized(cfg.sensors[i])

(* What the secret store of snapshot snap holds for a reference, NoneV *)
(* when it holds nothing.                                              *)
Stored(snap, ref) ==
    LET r == ref.s[2]
        sn == ref.s[3]
        key == IF Len(ref.s) > 3 THEN Join(SubSeq(ref.s, 4, Len(ref.s)))
               ELSE "wgs84_coordinates"
    IN  IF r \in DOMAIN snap.docs /\ snap.docs[r].st = "ok"
           /\ Has(snap.docs[r].data, sn) /\ Has(Get(snap.docs[r].data, sn), key)
        THEN Get(Get(snap.docs[r].data, sn), key)
        ELSE NoneV

InStore(snap, ref) == WellFormed(ref) /\ Stored(snap, ref) # NoneV

Snapshots == {world[t] : t \in DOMAIN world}

----
(* C1: every asset check of the start-up pipeline comes after secret   *)
(* resolution of the sensor list has completed, and the path checked   *)
(* is the resolved bit_mask / field_map, never the literal SECRET:     *)
(* reference of the raw configuration.                                 *)
AssetChecksFollowResolution ==
    pc \in {"running", "failed"} =>
        /\ \A i \in 1..Len(trace) :
               trace[i].e = "check" => \E j \in 1..(i - 1) : trace[j].e = "resolved"
        /\ \A i \in 1..Len(config.sensors) :
               LET sensor == config.sensors[i]
               IN  HasAsset(sensor) /\ IsReference(Get(sensor, AssetField(sensor)))
                   => \A n \in 1..Len(trace) :
                          trace[n].e = "check"
                          => trace[n].a # PathOf(Get(sensor, AssetField(sensor)))

(* C2: a configuration with a structural violation ends in Failed      *)
(* without any asset check, backoff sleep or secret read.              *)
StructuralFailureDoesNoWork ==
    pc \in {"running", "failed"} /\ StructuralViolation(config) =>
        /\ pc = "failed"
        /\ \A i \in 1..Len(trace) :
               trace[i].e \notin {"check", "sleep", "call", "store", "env"}

ValidatedSensor(sensor) ==
    /\ Recognized(sensor)
    /\ Has(sensor, AssetField(sensor))

(* C3: initialized is True only with the complete validated and        *)
(* resolved configuration in STATE; a failed pipeline leaves           *)
(* initialized False and robot_id / sensors at None / [], and /status  *)
(* and /init then answer 503 with no part of the configuration.        *)
InitializedOnlyWithCompleteConfig ==
    /\ State.initialized =>
           /\ pc = "running"
           /\ ~Raised(ret)
           /\ trace # <<>> /\ trace[Len(trace)].e = "resolved"
           /\ State.robot_id = config.robot_id
           /\ Len(State.sensors) = Len(config.sensors)
           /\ State.sensors = ret.val.c
           /\ \A i \in 1..Len(State.sensors) : ValidatedSensor(State.sensors[i])
    /\ pc = "failed" =>
           /\ ret.exc.kind \in {"robot_id_required", "no_sensors", "missing_type",
                                "invalid_type", "missing_field", "asset", "secret",
                                "malformed"}
           /\ ~State.initialized
           /\ State.robot_id = NoneV
           /\ State.sensors = <<>>
    /\ response.endpoint \in {"/status", "/init"} =>
           IF State.initialized
           THEN response.status = 200 /\ response.robot_id = config.robot_id
           ELSE response = [endpoint |-> response.endpoint, status |-> 503]

(* A pipeline that failed on an asset, asked for /status. *)
FailedPipelineAnswers503 ==
    /\ pc = "failed"
    /\ ret.exc.kind = "asset"
    /\ response.endpoint = "/status"
    /\ response.status = 503

(* The asset path a sensor refers to in snapshot snap: the path held by *)
(* the secret store when the field is a SECRET: reference.              *)
ReferredAsset(snap, sensor) ==
    LET v == Get(sensor, AssetField(sensor))
    IN  IF IsReference(v) /\ WellFormed(v) THEN Stored(snap, v) ELSE v

ValidConfig(cfg) ==
    /\ ~StructuralViolation(cfg)
    /\ \A i \in 1..Len(cfg.sensors) : ValidatedSensor(cfg.sensors[i])

AllResolvable(cfg) ==
    \A ref \in References(cfg) : \A snap \in Snapshots : InStore(snap, ref)

AllAssetsReadable(cfg) ==
    \A i \in 1..Len(cfg.sensors) : \A snap \in Snapshots :
        HasAsset(cfg.sensors[i])
        => PathOf(ReferredAsset(snap, cfg.sensors[i])) \in snap.files

(* C4: a valid configuration whose assets are all readable and whose   *)
(* references are all resolvable ends Initialized, with no backoff     *)
(* sleep, the stored sensors in the length and order of the input.     *)
ValidConfigInitializesWithoutSleep ==
    /\ pc \in {"running", "failed"}
    /\ ValidConfig(config)
    /\ AllResolvable(config)
    /\ AllAssetsReadable(config)
    => /\ pc = "running"
       /\ State.initialized
       /\ Sleeps(trace) = <<>>
       /\ Len(State.sensors) = Len(config.sensors)
       /\ \A i \in 1..Len(config.sensors) :
              Get(State.sensors[i], "type") = Get(config.sensors[i], "type")

----
(* The backoff schedule of n attempts that all fail: d * 2^i, i = 0..n-2. *)
Backoff(n, d) == [i \in 1..(n - 1) |-> d * Pow2(i - 1)]

Last(seq) == seq[Len(seq)]

AssetOf(sensor) == Get(sensor, AssetField(sensor))

NeverReadable(sensor) ==
    \A snap \in Snapshots : PathOf(AssetOf(sensor)) \notin snap.files

(* C5: validate_sensor_config with retry_count = N >= 1 and            *)
(* retry_delay = d on a sensor_a / sensor_c whose asset is missing at  *)
(* every attempt makes exactly N checks and N-1 sleeps of d*2^i in     *)
(* that order, none after the last check, and then fails.              *)
PersistentlyMissingAssetBacksOff ==
    /\ pc = "returned"
    /\ call.fn = "validate_sensor_config"
    /\ HasAsset(call.sensor)
    /\ call.retry_count >= 1
    /\ NeverReadable(call.sensor)
    => /\ Len(Checks(trace)) = call.retry_count
       /\ Durations(trace) = Backoff(call.retry_count, call.retry_delay)
       /\ Len(trace) = 2 * call.retry_count - 1
       /\ \A i \in 1..Len(trace) :
              /\ trace[i].e = IF i % 2 = 1 THEN "check" ELSE "sleep"
              /\ trace[i].e = "check" =>
                     trace[i].a = PathOf(AssetOf(call.sensor)) /\ ~trace[i].ok
       /\ ret.exc = Exc("asset", "", "", PathOf(AssetOf(call.sensor)), 0)

(* Three attempts with a base delay of 5: sleeps of 5 then 10, then failure. *)
ThreeAttemptsSleepFiveThenTen ==
    /\ pc = "returned"
    /\ call.fn = "validate_sensor_config"
    /\ TypeIs(call.sensor, "sensor_a")
    /\ call.retry_count = 3
    /\ call.retry_delay = 5
    /\ Durations(trace) = <<5, 10>>
    /\ Len(Checks(trace)) = 3
    /\ ret.exc.kind = "asset"

----
(* What one attempt of read_secret finds in a snapshot.  A store      *)
(* document that exists but is unreadable or lacks the entry makes    *)
(* the read of the store raise.                                       *)
DocExists(snap) == call.robot_id \in DOMAIN snap.docs

StoreHolds(snap) ==
    /\ DocExists(snap)
    /\ snap.docs[call.robot_id].st = "ok"
    /\ Has(snap.docs[call.robot_id].data, call.sensor_name)
    /\ Has(Get(snap.docs[call.robot_id].data, call.sensor_name), call.secret_key)

StoreLacks(snap) ==
    /\ DocExists(snap)
    /\ snap.docs[call.robot_id].st = "ok"
    /\ ~StoreHolds(snap)

(* SECRET_<ROBOT_ID>_<SENSOR_NAME>_<SECRET_KEY> for the calls of the model. *)
ExpectedEnvName ==
    IF call.secret_key = "path" THEN "SECRET_R1_SENSOR_A_PATH"
    ELSE "SECRET_R1_SENSOR_A_WGS84_COORDINATES"

EnvSet(snap) ==
    /\ ExpectedEnvName \in DOMAIN snap.env
    /\ snap.env[ExpectedEnvName] # <<"">>

EnvValue(snap) ==
    IF snap.env[ExpectedEnvName] = JsonCoordsText THEN Coords
    ELSE StrV(snap.env[ExpectedEnvName])

Obtains(snap) == StoreHolds(snap) \/ (~DocExists(snap) /\ EnvSet(snap))

Obtained(snap) ==
    IF StoreHolds(snap)
    THEN Get(Get(snap.docs[call.robot_id].data, call.sensor_name), call.secret_key)
    ELSE EnvValue(snap)

(* Attempt i (from 0) runs after i sleeps. *)
FirstObtaining(n) ==
    CHOOSE i \in 0..(n - 1) :
        /\ Obtains(At(i))
        /\ \A j \in 0..(i - 1) : ~Obtains(At(j))

(* C6: read_secret with retry_count = N >= 1 and retry_delay = d: when *)
(* no attempt obtains a value, N attempts, N-1 sleeps of d*2^i between *)
(* them, none after the last, and an error naming robot id, sensor     *)
(* name, key and N; when attempt k <= N obtains the value, it is       *)
(* returned at once, after k-1 sleeps and with nothing after it.       *)
ReadSecretRetriesThenFails ==
    pc = "returned" /\ call.fn = "read_secret" /\ call.retry_count >= 1 =>
        /\ Len(trace) >= 2
        /\ trace[1].e = "call"
        /\ Last(trace).e \in {"store", "env"}
        /\ IF \E i \in 0..(call.retry_count - 1) : Obtains(At(i))
           THEN LET k == FirstObtaining(call.retry_count)
                IN  /\ ~Raised(ret)
                    /\ ret.val = Obtained(At(k))
                    /\ Len(Attempts(trace)) = k + 1
                    /\ Durations(trace) = Backoff(k + 1, call.retry_delay)
                    /\ Last(trace).ok
           ELSE /\ ret.exc = Exc("secret", call.robot_id, call.sensor_name,
                                 call.secret_key, call.retry_count)
                /\ Len(Attempts(trace)) = call.retry_count
                /\ Durations(trace) = Backoff(call.retry_count, call.retry_delay)
                /\ ~Last(trace).ok

(* Three attempts that all miss: sleeps of 5 then 10, then the error. *)
SecretFailsAfterThreeAttempts ==
    /\ pc = "returned"
    /\ call.fn = "read_secret"
    /\ call.retry_count = 3
    /\ ret.exc.kind = "secret"
    /\ ret.exc.n = 3
    /\ Durations(trace) = <<5, 10>>
    /\ Len(Attempts(trace)) = 3

----
(* C7 as stated: in an attempt where the store does not yield the     *)
(* value (document absent, or present without the sensor or the key)  *)
(* and the environment variable is set, its value is returned without *)
(* sleeping or retrying.  Stated of the first attempt.                *)
EnvFallbackWheneverStoreMisses ==
    /\ pc = "returned"
    /\ call.fn = "read_secret"
    /\ call.retry_count >= 1
    /\ ~DocExists(At(0)) \/ StoreLacks(At(0))
    /\ EnvSet(At(0))
    => /\ ~Raised(ret)
       /\ ret.val = EnvValue(At(0))
       /\ Sleeps(trace) = <<>>
       /\ Len(Attempts(trace)) = 1

(* C7 as amended: every attempt made while the store document is      *)
(* absent reads the environment variable                              *)
(* SECRET_<ROBOT_ID>_<SENSOR_NAME>_<SECRET_KEY> and, when it is set   *)
(* to a non-empty value, returns it (JSON-decoded when it parses)     *)
(* with nothing after it; an attempt made while the document exists   *)
(* reads the store only, whether or not it holds the entry.           *)
EnvFallbackWhenStoreAbsent ==
    pc = "returned" /\ call.fn = "read_secret" /\ call.retry_count >= 1 =>
        /\ Len(Sleeps(trace)) \in {Len(Attempts(trace)) - 1, Len(Attempts(trace))}
        /\ \A j \in 1..Len(Attempts(trace)) :
               LET snap == At(j - 1)
                   att == Attempts(trace)[j]
               IN  IF DocExists(snap)
                   THEN att.e = "store" /\ att.ok = StoreHolds(snap)
                   ELSE /\ att.e = "env"
                        /\ att.a = ExpectedEnvName
                        /\ att.ok = EnvSet(snap)
                        /\ EnvSet(snap) =>
                               /\ j = Len(Attempts(trace))
                               /\ Last(trace) = att
                               /\ Len(Sleeps(trace)) = j - 1
                               /\ ~Raised(ret)
                               /\ ret.val = EnvValue(snap)

(* The value comes from the environment at the first attempt. *)
ReturnedFromEnvironment ==
    /\ pc = "returned"
    /\ call.fn = "read_secret"
    /\ ~DocExists(At(0))
    /\ Len(trace) = 2
    /\ trace[2].e = "env"
    /\ trace[2].a = "SECRET_R1_SENSOR_A_WGS84_COORDINATES"
    /\ ret.val = Coords

----
(* The tree with every well-formed reference leaf replaced by what the *)
(* store of snapshot snap holds for it, every other leaf kept.         *)
RECURSIVE Substituted(_, _)
Substituted(snap, v) ==
    IF v.t \in {"dict", "list"}
    THEN [v EXCEPT !.c = [i \in 1..Len(v.c) |-> Substituted(snap, v.c[i])]]
    ELSE IF IsReference(v) /\ WellFormed(v) THEN Stored(snap, v) ELSE v

SubstitutedSensors(snap, cfg) ==
    [i \in 1..Len(cfg.sensors) |-> Substituted(snap, cfg.sensors[i])]

(* C8: when the store holds a value for every reference of the sensor  *)
(* list, resolve_secrets_in_config returns the tree of the same shape  *)
(* with each reference replaced by exactly the stored value and every  *)
(* other leaf unchanged, reading no environment variable and never     *)
(* sleeping.                                                           *)
StoredSecretsReplaceReferences ==
    /\ pc = "returned"
    /\ call.fn = "resolve_secrets_in_config"
    /\ "sensors" \in call.arg.keys
    /\ \A ref \in References(call.arg) : InStore(At(0), ref)
    => /\ ~Raised(ret)
       /\ ret.val.c = SubstitutedSensors(At(0), call.arg)
       /\ config.sensors = SubstitutedSensors(At(0), call.arg)
       /\ Sleeps(trace) = <<>>
       /\ \A i \in 1..Len(trace) : trace[i].e # "env"

(* C9: a configuration without any SECRET: string is returned          *)
(* deep-equal, with no secret read and no sleep, and resolving the     *)
(* result again returns the same.                                      *)
NoReferenceMeansIdentity ==
    call.fn = "resolve_secrets_in_config" /\ References(call.arg) = {} =>
        /\ pc \in {"returned", "returned again"} =>
               /\ ~Raised(ret)
               /\ ret.val = ListV(call.arg.sensors)
               /\ config = call.arg
               /\ trace = <<Ev("resolved", "", "", "", TRUE, 0)>>
        /\ pc = "returned again" => ret.val = call.first.val

(* A configuration with colons in its strings but no reference, resolved twice. *)
PlainConfigResolvedTwice ==
    /\ pc = "returned again"
    /\ References(call.arg) = {}
    /\ Urn \in ConfigLeaves(call.arg)
    /\ Len(call.arg.sensors) = 2
    /\ ret.val = ListV(call.arg.sensors)

----
MalformedLeaves(cfg) == {v \in References(cfg) : ~WellFormed(v)}

ValidationKinds ==
    {"robot_id_required", "no_sensors", "missing_type", "invalid_type",
     "missing_field", "asset"}

IsSecretSleep(ev) == ev.e = "sleep" /\ ev.a = "secret"

IsFound(ev) == ev.e \in {"store", "env"} /\ ev.ok

(* C10: a SECRET: string of fewer than 3 parts makes the resolution    *)
(* fail with the malformed-reference error as soon as the walk reaches *)
(* it, with no resolver attempt and no backoff sleep for it, and the   *)
(* pipeline does not reach Initialized.                                *)
MalformedReferenceFailsAtOnce ==
    pc \in {"running", "failed"} /\ MalformedLeaves(config) # {} =>
        /\ pc = "failed"
        /\ ~State.initialized
        /\ ret.exc.kind \in ValidationKinds \cup {"malformed", "secret"}
        /\ ret.exc.kind = "malformed" =>
               /\ \E v \in MalformedLeaves(config) : ret.exc.k = PathOf(v)
               /\ Len(SelectSeq(trace, IsFound)) = Len(Calls(trace))
               /\ Len(Attempts(trace)) = Len(Calls(trace)) + Len(SelectSeq(trace, IsSecretSleep))
               /\ trace # <<>> => ~IsSecretSleep(Last(trace)) /\ Last(trace).e # "call"
        /\ (/\ ret.exc.kind \notin ValidationKinds
            /\ \A ref \in References(config) \ MalformedLeaves(config) :
                   \A snap \in Snapshots : InStore(snap, ref))
           => /\ ret.exc.kind = "malformed"
              /\ SelectSeq(trace, IsSecretSleep) = <<>>
              /\ Len(Attempts(trace)) = Len(Calls(trace))
        /\ (ret.exc.kind \notin ValidationKinds
            /\ References(config) = MalformedLeaves(config))
           => /\ ret.exc.kind = "malformed"
              /\ Calls(trace) = <<>>
              /\ Attempts(trace) = <<>>

(* "SECRET:onlytwo" reached by the walk after validation passed. *)
MalformedReferenceReached ==
    /\ pc = "failed"
    /\ ret.exc = Exc("malformed", "", "", "SECRET:onlytwo", 0)
    /\ Calls(trace) = <<>>
    /\ Sleeps(trace) = <<>>
    /\ response.status = 503

----
StructuralKinds == {"missing_field", "missing_type", "invalid_type"}

MissingField(sensor) == Recognized(sensor) /\ ~Has(sensor, AssetField(sensor))

(* C11: a configuration holding a sensor of a recognized type without  *)
(* its type-required field ends in Failed with the missing-field error *)
(* and without any backoff sleep, whatever the other sensors are and   *)
(* whether their assets are readable.  Read charitably: when another   *)
(* sensor has an unknown or absent type, that structural error is      *)
(* accepted in place of the missing-field one.                         *)
MissingFieldFailsWithoutSleep ==
    /\ pc \in {"running", "failed"}
    /\ {"robot_id", "sensors"} \subseteq config.keys
    /\ \E i \in 1..Len(config.sensors) : MissingField(config.sensors[i])
    => /\ pc = "failed"
       /\ IF \A i \in 1..Len(config.sensors) : Recognized(config.sensors[i])
          THEN ret.exc.kind = "missing_field"
          ELSE ret.exc.kind \in StructuralKinds
       /\ Sleeps(trace) = <<>>

----
(* C12: validate_sensor_config on a sensor whose type is absent or is   *)
(* not sensor_a, sensor_b or sensor_c fails with a validation error,    *)
(* without any asset check or sleep; it never returns normally.         *)
UnknownTypeFailsInValidator ==
    /\ pc = "returned"
    /\ call.fn = "validate_sensor_config"
    /\ ~Recognized(call.sensor)
    => /\ Raised(ret)
       /\ ret.exc.kind \in {"invalid_type", "missing_type"}
       /\ trace = <<>>

----
(* C13: a configuration whose robot_id is the empty string is rejected *)
(* by the structural check, so that whenever STATE["initialized"] is   *)
(* True the stored robot_id is a non-empty string.                     *)
InitializedRobotIdNonEmpty ==
    /\ (pc \in {"running", "failed"} /\ "robot_id" \in config.keys
        /\ config.robot_id = StrV(<<"">>))
       => pc = "failed" /\ ret.exc.kind = "robot_id_required"
    /\ State.initialized =>
           /\ State.robot_id.t = "str"
           /\ State.robot_id.s # <<"">>

----
(* C14: once STATE["initialized"] is True, no request and no handled    *)
(* runtime exception changes robot_id, sensors, config_version or       *)
(* initialized, nor runs validation or secret resolution again (the     *)
(* trace of the pipeline and its result stay as they are); only         *)
(* health_checks (by one) and errors (by one appended entry) change.    *)
ReadOnlyAfterInitialized ==
    [][State.initialized =>
          /\ State'.initialized
          /\ State'.robot_id = State.robot_id
          /\ State'.sensors = State.sensors
          /\ State'.config_version = State.config_version
          /\ State'.startup_time = State.startup_time
          /\ State'.asset_validation_retries = State.asset_validation_retries
          /\ trace' = trace
          /\ ret' = ret
          /\ config' = config
          /\ State'.health_checks \in {State.health_checks, State.health_checks + 1}
          /\ \/ State'.errors = State.errors
             \/ /\ Len(State'.errors) = Len(State.errors) + 1
                /\ SubSeq(State'.errors, 1, Len(State.errors)) = State.errors]_vars

(* An initialized robot that answered a health check and handled a *)
(* runtime error, its configuration still the one start-up stored. *)
InitializedServedRequests ==
    /\ State.initialized
    /\ State.health_checks >= 1
    /\ Len(State.errors) >= 1
    /\ State.robot_id = config.robot_id
    /\ State.sensors = ret.val.c
    /\ State.asset_validation_retries >= 1

----
(* The reference leaves of a tree in the order of a depth-first walk, *)
(* each as often as it occurs.                                        *)
RECURSIVE RefSeq(_), RefSeqFrom(_, _)
RefSeq(v) ==
    IF v.t \in {"dict", "list"} THEN RefSeqFrom(v.c, 1)
    ELSE IF IsReference(v) THEN <<v>> ELSE <<>>

RefSeqFrom(items, i) ==
    IF i > Len(items) THEN <<>> ELSE RefSeq(items[i]) \o RefSeqFrom(items, i + 1)

InputReferences(cfg) == RefSeqFrom(cfg.sensors, 1)

SecretKeyOf(ref) ==
    IF Len(ref.s) > 3 THEN Join(SubSeq(ref.s, 4, Len(ref.s))) ELSE "wgs84_coordinates"

(* The resolver call a reference stands for: robot id, sensor name and *)
(* key are the fields of the reference string.                         *)
CallFor(ref) == Ev("call", ref.s[2], ref.s[3], SecretKeyOf(ref), TRUE, 0)

(* C15: in a resolve_secrets_in_config call where every reference      *)
(* resolves on its first attempt, the read_secret calls are exactly    *)
(* one per SECRET: leaf of the input sensor list, in the order of the  *)
(* walk, and none for a value the resolver returned.                   *)
EachReferenceResolvedOnce ==
    /\ pc = "returned"
    /\ call.fn = "resolve_secrets_in_config"
    /\ "sensors" \in call.arg.keys
    /\ ~Raised(ret)
    /\ Sleeps(trace) = <<>>
    => /\ Len(Calls(trace)) = Len(InputReferences(call.arg))
       /\ Calls(trace) = [i \in 1..Len(InputReferences(call.arg)) |->
                             CallFor(InputReferences(call.arg)[i])]

----
IsTypeCheck(ev) == ev.e = "typecheck"

TypeChecks(tr) == SelectSeq(tr, IsTypeCheck)

(* The position in the list of the sensor being validated when event n *)
(* of the trace happens: the number of type checks made up to it.      *)
Owner(n) == Cardinality({j \in 1..n : trace[j].e = "typecheck"})

IsAssetSleep(ev) == ev.e = "sleep" /\ ev.a = "asset"

SensorFailureKinds == {"missing_type", "invalid_type", "missing_field", "asset"}

(* C16: validate_robot_config takes the sensors in input order, each   *)
(* at most once; the type check of a sensor precedes its asset checks, *)
(* a sensor of unknown or absent type gets no asset check, sleep or    *)
(* secret read, and nothing is type-checked or asset-checked after the *)
(* first sensor that fails.                                            *)
SensorsValidatedInOrder ==
    /\ pc \in {"running", "failed"}
    /\ {"robot_id", "sensors"} \subseteq config.keys
    => LET tcs == TypeChecks(trace)
       IN  /\ Len(tcs) <= Len(config.sensors)
           /\ \A j \in 1..Len(tcs) :
                  /\ tcs[j].d = j
                  /\ tcs[j].ok = Recognized(config.sensors[j])
           /\ \A n \in 1..Len(trace) :
                  /\ (trace[n].e = "typecheck" /\ ~trace[n].ok) => n = Len(trace)
                  /\ trace[n].e = "check" =>
                         /\ Owner(n) >= 1
                         /\ tcs[Owner(n)].ok
                         /\ HasAsset(config.sensors[Owner(n)])
                         /\ trace[n].a = PathOf(AssetOf(config.sensors[Owner(n)]))
                         /\ trace[n].ok /\ n < Len(trace)
                                => trace[n + 1].e \notin {"check", "sleep"}
                                   \/ IsSecretSleep(trace[n + 1])
                  /\ IsAssetSleep(trace[n]) =>
                         /\ n > 1 /\ n < Len(trace)
                         /\ trace[n - 1].e = "check" /\ ~trace[n - 1].ok
                         /\ trace[n + 1].e = "check"
                         /\ Owner(n + 1) = Owner(n - 1)
                  /\ trace[n].e \in {"call", "store", "env", "resolved"} =>
                         /\ Owner(n) = Len(config.sensors)
                         /\ ret.exc.kind \notin SensorFailureKinds
           /\ IF ret.exc.kind \in SensorFailureKinds
              THEN /\ pc = "failed"
                   /\ Len(tcs) >= 1
                   /\ Last(trace).e \in {"typecheck", "check"}
                   /\ Last(trace).e = "check" =>
                          ~Last(trace).ok /\ ret.exc.kind = "asset"
                   /\ ret.exc.kind \in {"missing_type", "invalid_type"} =>
                          ret.exc.n = Len(tcs) /\ ~Last(trace).ok
                   /\ \A j \in 1..(Len(tcs) - 1) :
                          /\ Recognized(config.sensors[j])
                          /\ ~MissingField(config.sensors[j])
              ELSE Len(tcs) = Len(config.sensors)

(* The asset of the first sensor fails its three checks: the second *)
(* sensor, which has an asset too, is never looked at.              *)
FirstFailureStopsTheLoop ==
    /\ pc = "failed"
    /\ ret.exc.kind = "asset"
    /\ Len(config.sensors) = 2
    /\ HasAsset(config.sensors[2])
    /\ Len(TypeChecks(trace)) = 1
    /\ Len(Checks(trace)) = SensorRetryCount

----
(* The resolution context of a sensor: sensor.get("type", "unknown"). *)
ContextOf(sensor) == IF Has(sensor, "type") THEN TypeOf(sensor) ELSE "unknown"

(* For each reference of InputReferences, the context of its sensor. *)
RECURSIVE ContextsFrom(_, _)
ContextsFrom(sensors, i) ==
    IF i > Len(sensors) THEN <<>>
    ELSE [n \in 1..Len(RefSeq(sensors[i])) |-> ContextOf(sensors[i])]
         \o ContextsFrom(sensors, i + 1)

(* The SECRET: strings the secret stores of the environment hold. *)
StoredDocs == UNION {{snap.docs[r] : r \in DOMAIN snap.docs} : snap \in Snapshots}

StoreReferences ==
    UNION {{v \in Leaves(doc.data) : IsReference(v)} :
              doc \in {d \in StoredDocs : d.st = "ok"}}

(* C17 as stated: the sensor_name of every read_secret call made by    *)
(* the walk is the resolution context, the type of the sensor the      *)
(* reference sits in.  When no stored value holds a SECRET: string the *)
(* calls are those of the input references in walk order, and the      *)
(* i-th call is compared with the context of the i-th reference.       *)
ResolverGetsContextSensorName ==
    /\ pc = "returned"
    /\ call.fn = "resolve_secrets_in_config"
    /\ "sensors" \in call.arg.keys
    => /\ \A n \in 1..Len(trace) :
              trace[n].e = "call" =>
                  \E i \in 1..Len(call.arg.sensors) :
                      trace[n].b = ContextOf(call.arg.sensors[i])
       /\ StoreReferences = {} =>
              \A i \in 1..Len(Calls(trace)) :
                  Calls(trace)[i].b = ContextsFrom(call.arg.sensors, 1)[i]

(* C17 as amended: the robot id, sensor name and key of every          *)
(* read_secret call made by the walk are the second, third and fourth  *)
(* field of the reference string being resolved (the key defaulting to *)
(* wgs84_coordinates), whatever sensor the reference sits in.          *)
ResolverGetsSensorNameOfReference ==
    /\ pc = "returned"
    /\ call.fn = "resolve_secrets_in_config"
    /\ "sensors" \in call.arg.keys
    => /\ \A n \in 1..Len(trace) :
              trace[n].e = "call" =>
                  \E ref \in References(call.arg) \cup StoreReferences :
                      WellFormed(ref) /\ trace[n] = CallFor(ref)
       /\ StoreReferences = {} =>
              /\ Len(Calls(trace)) <= Len(InputReferences(call.arg))
              /\ \A i \in 1..Len(Calls(trace)) :
                     Calls(trace)[i] = CallFor(InputReferences(call.arg)[i])

(* A reference naming sensor_a inside a sensor of type sensor_b: the *)
(* secret of sensor_a is read and substituted.                       *)
ForeignSensorNameResolved ==
    /\ pc = "returned"
    /\ call.arg.sensors = <<SensorNested>>
    /\ ~Raised(ret)
    /\ StoreReferences = {}
    /\ Calls(trace) = <<Ev("call", "r1", "sensor_a", "wgs84_coordinates", TRUE, 0),
                        Ev("call", "r1", "sensor_a", "path", TRUE, 0)>>
    /\ Get(Get(ret.val.c[1], "extra"), "pos") = Coords

----
AssetSleeps(tr) == SelectSeq(tr, IsAssetSleep)

(* The asset backoff sleeps made while sensor j was being validated. *)
AssetSleepsOf(j) ==
    Cardinality({n \in 1..Len(trace) : IsAssetSleep(trace[n]) /\ Owner(n) = j})

(* C18: STATE["asset_validation_retries"] is the number of backoff     *)
(* sleeps asset validation has made: 0 when every check succeeded at   *)
(* once, untouched by missing-field and unknown-type failures and by   *)
(* the sleeps of secret resolution, and retry_count - 1 more for a     *)
(* sensor whose asset failed every check.                              *)
RetryCounterCountsAssetSleeps ==
    /\ State.asset_validation_retries = Len(AssetSleeps(trace))
    /\ \A n \in 1..Len(trace) :
           IsAssetSleep(trace[n]) => n > 1 /\ trace[n - 1].e = "check" /\ ~trace[n - 1].ok
    /\ (\A n \in 1..Len(trace) : trace[n].e = "check" => trace[n].ok)
           => State.asset_validation_retries = 0
    /\ pc = "failed" /\ ret.exc.kind = "asset"
           => AssetSleepsOf(Len(TypeChecks(trace))) = SensorRetryCount - 1
    /\ pc = "failed" /\ ret.exc.kind \in StructuralKinds
           => AssetSleepsOf(Len(TypeChecks(trace))) = 0
    /\ \A j \in 1..Len(TypeChecks(trace)) : AssetSleepsOf(j) <= SensorRetryCount - 1

(* One asset retry counted, and a sleep of secret resolution that is not. *)
AssetRetryCountedSecretSleepNot ==
    /\ pc = "failed"
    /\ ret.exc.kind = "secret"
    /\ State.asset_validation_retries = 1
    /\ Len(Sleeps(trace)) = 2
    /\ response.endpoint = "/metrics"
    /\ response.asset_validation_retries = 1

----
(* C19: for every retry_count >= 0, validate_sensor_config returns     *)
(* normally for a sensor_a or sensor_c only when a check of its        *)
(* bit_mask / field_map path succeeded, and that successful check is   *)
(* the last thing it does: no check and no sleep follows it.           *)
ReturnsOnlyAfterSuccessfulCheck ==
    /\ pc = "returned"
    /\ call.fn = "validate_sensor_config"
    /\ HasAsset(call.sensor)
    => /\ ~Raised(ret) =>
              /\ trace # <<>>
              /\ Last(trace).e = "check"
              /\ Last(trace).ok
              /\ Last(trace).a = PathOf(AssetOf(call.sensor))
       /\ \A n \in 1..Len(trace) :
              trace[n].e = "check" /\ trace[n].ok => n = Len(trace)

====
